---- MODULE Spec2Model ----
(***************************************************************************)
(* wikidict: the paginated-fetch pipeline of WikiDownloader (wiki.py) over *)
(* the page store of model.py.                                             *)
(*                                                                         *)
(* One behaviour is a caller issuing WikiDownloader operations one after   *)
(* another on one session against one remote wiki.  An operation is begun  *)
(* by its own action and then advances by WikiRequest, one remote request  *)
(* and everything the code does with its response up to the next request.  *)
(***************************************************************************)
EXTENDS Integers, Sequences, FiniteSets, TLC

\* ------------------------------------------------------------------ bounds
\* pages held by the remote wiki: ids 1..NPages
NPages == 3
\* edits made to the remote wiki in one behaviour
MaxEdits == 1
\* the remote puts at most serverLimit items in a response, 1..MaxServerLimit
MaxServerLimit == 2
\* longest text given to Parser.remove_templates, in markers and letters
MaxTemplateTokens == 6
\* longest text given to Parser.to_markdown, in brackets, pipes and words
MaxLinkTokens == 5
\* longest id / title list a caller passes to an operation
MaxArgLen == 2
\* operations a caller begins in one behaviour
MaxCalls == 2
\* largest max_pages a caller passes to get_page_list
MaxPagesArg == 2
\* the code's batch size (max_pages = 50, wiki.py:59 and :144), scaled down
BatchSize == 2
\* the interpreter's recursion limit, scaled down
MaxDepth == 3

\* ------------------------------------------------------------ Python values
\* Python's None; ids, titles, revisions and counts are all >= 0
None == -1

\* n_batch of get_page_list
AllPagesLimit == 500

Min(a, b) == IF a < b THEN a ELSE b

\* None where a list is expected
NoList == <<None>>

\* x or y, on lists and None: an empty list and None are falsy
Or(x, y) == IF x = NoList \/ x = <<>> THEN y ELSE x

RECURSIVE SeqSum(_)
SeqSum(s) == IF s = <<>> THEN 0 ELSE Head(s) + SeqSum(Tail(s))

Range(s) == {s[i] : i \in 1..Len(s)}

Last(s) == s[Len(s)]

\* the concatenation of a list of lists
RECURSIVE Flat(_)
Flat(ss) == IF ss = <<>> THEN <<>> ELSE Head(ss) \o Flat(Tail(ss))

\* ------------------------------------------------------------------- state
VARIABLES
    remoteRev,       \* remote: page id -> latest revision id
    remoteRedirect,  \* remote: page id -> title its text redirects to, or None
    serverLimit,     \* remote: items per response
    sess,            \* the session's view of the store (flushed, uncommitted)
    db,              \* the committed store
    stack,           \* running calls, innermost last; <<>> when no call runs
    call,            \* the operation the caller last began, and how it ended
    gen,             \* the running (or last) _continued_response generator
    prev,            \* the last update_latest_revisions that returned
    calls,           \* operations begun so far
    parser           \* a Parser at work on a text

vars == <<remoteRev, remoteRedirect, serverLimit, sess, db, stack, call, gen,
          prev, calls, parser>>

\* what no operation of WikiDownloader changes
untouched == <<remoteRedirect, serverLimit, parser>>

\* ------------------------------------------------------------ remote wiki
\* ids the remote holds, and one id it does not hold
PageIds == 1..NPages
MissingId == NPages + 1
AllIds == PageIds \cup {MissingId}

\* titles are numbers above every id, so a title is never read as an id;
\* page p is titled TitleOf(p), and allpages lists pages in title order
TitleOf(p) == 100 + p
IsTitle(v) == v > 100
PageOfTitle(t) == t - 100
AllTitles == {TitleOf(p) : p \in AllIds}

\* the title the text of page p redirects to, None when it is no redirect
RemoteRedirect(p) == remoteRedirect[p]

\* a wiki where page 1 is a redirect stub to page 2 and no other page
\* redirects
OneRedirect == [p \in PageIds |-> IF p = 1 THEN TitleOf(2) ELSE None]

\* the categories objects of a page, as the API returns them
RemoteCategories(p) ==
    IF p = 1 THEN <<>>
    ELSE IF p % 2 = 0 THEN << [title |-> <<"Category:", "c1">>],
                              [title |-> <<"Category:", "c2">>] >>
    ELSE << [title |-> <<"Category:", "c1">>] >>

\* wikitext: the revision it is the text of, and the title its leading
\* #REDIRECT [[...]] directive names (None: no directive)
Content(p, rev) == [text |-> rev, redirect |-> RemoteRedirect(p)]
NoContent == [text |-> None, redirect |-> None]

\* ------------------------------------------------------------------ store
\* model.py: table pages (primary key id), table categories (integer
\* primary key, assigned in insertion order), table categoryassociation
\* (two foreign keys, no key of its own).

\* WikiPage(id=i) with no other attribute set
WikiPage(i) ==
    [id |-> i, title |-> None, revision_id |-> None,
     latest_revision_online |-> None, content |-> NoContent,
     redirect_to_id |-> None]

EmptyStore == [pages |-> {}, cats |-> <<>>, assoc |-> <<>>]

\* session.query(WikiPage).get(i): the row, or None
RowsOf(st, i) == {r \in st.pages : r.id = i}
HasPage(st, i) == RowsOf(st, i) # {}
Get(st, i) == CHOOSE r \in RowsOf(st, i) : TRUE

\* a write that leaves r the only row of the table
PutRowAlone(st, r) == [st EXCEPT !.pages = {r}]

\* the row with primary key r.id becomes r
PutRow(st, r) == [st EXCEPT !.pages = (@ \ RowsOf(st, r.id)) \cup {r}]

\* what a mistaken session.add of a second object for a stored id would
\* leave on a table without its key: both rows
MergeAsAdd(st, given) == [st EXCEPT !.pages = @ \cup {given}]

\* session.merge(given) of a transient WikiPage: the attributes set on
\* given are copied onto the row with its primary key (created if absent);
\* attributes never set on given are left as stored
Merge(st, given) ==
    LET old == IF HasPage(st, given.id) THEN Get(st, given.id)
               ELSE WikiPage(given.id)
        pick(a, b) == IF a # None THEN a ELSE b
    IN PutRow(st,
        [id |-> given.id,
         title |-> pick(given.title, old.title),
         revision_id |-> pick(given.revision_id, old.revision_id),
         latest_revision_online |->
             pick(given.latest_revision_online, old.latest_revision_online),
         content |-> IF given.content # NoContent THEN given.content
                     ELSE old.content,
         redirect_to_id |-> pick(given.redirect_to_id, old.redirect_to_id)])

\* session.query(WikiPage), in primary-key order
RECURSIVE SortedIds(_)
SortedIds(S) ==
    IF S = {} THEN <<>>
    ELSE LET m == CHOOSE x \in S : \A y \in S : x <= y
         IN <<m>> \o SortedIds(S \ {m})

StoredIds(st) == SortedIds({r.id : r \in st.pages})

\* Category rows named n
CategoryIds(st, n) == {i \in 1..Len(st.cats) : st.cats[i] = n}

\* get_or_create(session, Category, name=n): the first row named n, else a
\* new row added to the session
get_or_create(st, n) ==
    IF CategoryIds(st, n) # {}
    THEN [st |-> st, id |-> CHOOSE i \in CategoryIds(st, n) :
                              \A j \in CategoryIds(st, n) : i <= j]
    ELSE [st |-> [st EXCEPT !.cats = Append(@, n)], id |-> Len(st.cats) + 1]

\* a Category(name=n) created without the lookup
AlwaysCreate(st, n) ==
    [st |-> [st EXCEPT !.cats = Append(@, n)], id |-> Len(st.cats) + 1]

\* page.categories of page i: its association rows, in order
CategoriesOf(st, i) ==
    SelectSeq(st.assoc, LAMBDA row : row[1] = i)

\* an association row written for every append
AppendAlways(st, i, c) == [st EXCEPT !.assoc = Append(@, <<i, c>>)]

\* page.categories.append(cat) as it reaches the store: the relationship
\* (model.py:26) is flushed from the collection's history, which lists as
\* added only the objects the collection did not already hold, so a
\* Category the page already has gives no second association row
categories_append(st, i, c) ==
    IF \E k \in 1..Len(st.assoc) : st.assoc[k] = <<i, c>> THEN st
    ELSE [st EXCEPT !.assoc = Append(@, <<i, c>>)]

\* re.sub('^Category:', '', title), a title being its sequence of parts
StripCategoryPrefix(title) ==
    IF title # <<>> /\ Head(title) = "Category:" THEN Tail(title) ELSE title

\* lines 223-225 with a Category built for every category object
AttachCategoryNew(st, i, category_obj) ==
    LET g == AlwaysCreate(st, StripCategoryPrefix(category_obj.title))
    IN categories_append(g.st, i, g.id)

\* _parse_pages_and_add, one category object of a page
AttachCategory(st, i, category_obj) ==
    LET g == get_or_create(st, StripCategoryPrefix(category_obj.title))
    IN categories_append(g.st, i, g.id)

\* ------------------------------------------------- remote API (black box)
\* A request is its query parameters:
\*   kind      list=allpages | prop=revisions (rvprop=ids) | prop=revisions|
\*             categories (rvprop=content|ids)
\*   aplimit, apfrom   of an allpages request
\*   based_on  the key the page list is sent under, vals the list
\*   cont      the continuation parameters merged in so far (None: none)
\* A response is an error section, or a query section (items) and an
\* optional continue section (cont).
ErrorResponse ==
    [error |-> TRUE, info |-> "remote failure", items |-> <<>>, cont |-> None]

BadIntegerResponse ==
    [error |-> TRUE, info |-> "badinteger", items |-> <<>>, cont |-> None]

\* the page object of a page the remote holds
PageObject(p, rev) ==
    [pageid |-> p, title |-> TitleOf(p), missing |-> FALSE,
     revid |-> rev[p], content |-> Content(p, rev[p]),
     categories |-> RemoteCategories(p)]

\* the page object for a requested id or title the remote does not hold
MissingObject(based_on, v) ==
    [pageid |-> IF based_on = "pageids" THEN v ELSE None,
     title |-> IF based_on = "titles" THEN v ELSE None,
     missing |-> TRUE, revid |-> None, content |-> NoContent,
     categories |-> <<>>]

\* the page object answering one requested value
ObjectFor(based_on, v, rev) ==
    LET p == IF based_on = "pageids" THEN v ELSE PageOfTitle(v)
    IN IF p \in PageIds THEN PageObject(p, rev) ELSE MissingObject(based_on, v)

\* list=allpages: up to min(aplimit, limit) pages in title order, from
\* apcontinue if given, else from apfrom; continue names the next title
AllPagesResponse(qp, limit, rev) ==
    LET from == IF qp.cont # None THEN qp.cont ELSE qp.apfrom
        listed == SortedIds({p \in PageIds : TitleOf(p) >= from})
        n == Min(Min(qp.aplimit, limit), Len(listed))
    IN [error |-> FALSE, info |-> "",
        items |-> [k \in 1..n |-> PageObject(listed[k], rev)],
        cont |-> IF n < Len(listed) THEN TitleOf(listed[n + 1]) ELSE None]

\* prop=...: page objects for up to limit of the requested values, resuming
\* after the position a continuation names; a value that is no integer under
\* pageids is rejected
PagesResponse(qp, limit, rev) ==
    IF qp.based_on = "pageids" /\ \E k \in 1..Len(qp.vals) : IsTitle(qp.vals[k])
    THEN BadIntegerResponse
    ELSE LET done == IF qp.cont # None THEN Min(qp.cont, Len(qp.vals)) ELSE 0
             n == Min(limit, Len(qp.vals) - done)
         IN [error |-> FALSE, info |-> "",
             items |-> [k \in 1..n |->
                          ObjectFor(qp.based_on, qp.vals[done + k], rev)],
             cont |-> IF done + n < Len(qp.vals) THEN done + n ELSE None]

\* wiki_request(query_params) on a remote that works
ServerResponse(qp, limit, rev) ==
    IF qp.kind = "allpages" THEN AllPagesResponse(qp, limit, rev)
    ELSE PagesResponse(qp, limit, rev)

\* ------------------------------------------------------- response parsing
\* _merge_page_list without its commit: every listed page merged (id, title)
RECURSIVE MergeAll(_, _)
MergeAll(st, items) ==
    IF items = <<>> THEN st
    ELSE MergeAll(Merge(st, [WikiPage(Head(items).pageid)
                                EXCEPT !.title = Head(items).title]),
                  Tail(items))

\* _merge_page_list: the session after the merges (the caller commits it)
\* and the returned ids
_merge_page_list(response, st) ==
    [st |-> MergeAll(st, response.items),
     ret |-> [k \in 1..Len(response.items) |-> response.items[k].pageid]]

\* _parse_revision: (page id, revision id) per page object; a page object
\* without revisions (a missing page) is a KeyError
_parse_revision(response) ==
    IF \E k \in 1..Len(response.items) : response.items[k].missing
    THEN [exc |-> "KeyError", ret |-> <<>>]
    ELSE [exc |-> "none",
          ret |-> [k \in 1..Len(response.items) |->
                     <<response.items[k].pageid, response.items[k].revid>>]]

RECURSIVE AttachAll(_, _, _)
AttachAll(st, i, categories) ==
    IF categories = <<>> THEN st
    ELSE AttachAll(AttachCategory(st, i, Head(categories)), i, Tail(categories))

\* lines 213-227 with line 216 left out
AddPageKeepLatest(st, obj) ==
    LET page == IF HasPage(st, obj.pageid) THEN Get(st, obj.pageid)
                ELSE WikiPage(obj.pageid)
        row == [page EXCEPT !.revision_id = obj.revid,
                            !.content = obj.content,
                            !.title = obj.title]
    IN AttachAll(PutRow(st, row), obj.pageid, obj.categories)

\* _parse_pages_and_add, lines 213-227: one page object stored
AddPage(st, obj) ==
    LET page == IF HasPage(st, obj.pageid) THEN Get(st, obj.pageid)
                ELSE WikiPage(obj.pageid)
        row == [page EXCEPT !.revision_id = obj.revid,
                            !.latest_revision_online = obj.revid,
                            !.content = obj.content,
                            !.title = obj.title]
    IN AttachAll(PutRow(st, row), obj.pageid, obj.categories)

\* re.match('#REDIRECT \[\[([^\]]+)\]\].*', content): group 1, or None
RedirectMatch(content) == content.redirect

\* _parse_pages_and_add: page objects in order; a missing one reaches
\* 'Missing object in API request result: ' + obj (line 197), a str + dict
RECURSIVE ParsePages(_, _)
ParsePages(items, acc) ==
    IF items = <<>> THEN acc
    ELSE LET obj == Head(items) IN
         IF obj.missing THEN [acc EXCEPT !.exc = "TypeError"]
         ELSE ParsePages(Tail(items),
                [exc |-> "none",
                 st |-> AddPage(acc.st, obj),
                 downloaded |-> Append(acc.downloaded, obj.pageid),
                 redirects |->
                     IF RedirectMatch(obj.content) # None
                     THEN Append(acc.redirects,
                                 <<obj.pageid, RedirectMatch(obj.content)>>)
                     ELSE acc.redirects])

_parse_pages_and_add(response, st) ==
    ParsePages(response.items,
               [exc |-> "none", st |-> st, downloaded |-> <<>>,
                redirects |-> <<>>])

\* the first stored page titled t (query ... filter(title == t).first())
TitledIds(st, t) == {r.id : r \in {x \in st.pages : x.title = t}}
FirstTitled(st, t) == CHOOSE i \in TitledIds(st, t) : \A j \in TitledIds(st, t) : i <= j

\* a linking pass that resolves nothing
LinkNothing(st, page_ids) == [exc |-> "none", st |-> st]

\* link_redirects without its commit; a source id that is not stored gives
\* None.content (AttributeError), stored content None gives re.match(.., None)
RECURSIVE LinkAll(_, _)
LinkAll(st, page_ids) ==
    IF page_ids = <<>> THEN [exc |-> "none", st |-> st]
    ELSE LET source_id == Head(page_ids) IN
         IF ~HasPage(st, source_id) THEN [exc |-> "AttributeError", st |-> st]
         ELSE LET source_page == Get(st, source_id) IN
              IF source_page.content = NoContent
              THEN [exc |-> "TypeError", st |-> st]
              ELSE LET target_title == RedirectMatch(source_page.content) IN
                   IF target_title = None \/ TitledIds(st, target_title) = {}
                   THEN LinkAll(st, Tail(page_ids))
                   ELSE LinkAll(
                          PutRow(st, [source_page EXCEPT !.redirect_to_id =
                                        FirstTitled(st, target_title)]),
                          Tail(page_ids))

\* _iterable_grouper: groups of n, the last padded with None
RECURSIVE _iterable_grouper(_, _)
_iterable_grouper(iterable, n) ==
    IF iterable = <<>> THEN <<>>
    ELSE IF Len(iterable) >= n
    THEN <<SubSeq(iterable, 1, n)>>
         \o _iterable_grouper(SubSeq(iterable, n + 1, Len(iterable)), n)
    ELSE << iterable \o [k \in 1..(n - Len(iterable)) |-> None] >>

\* a join that spells the padding too
JoinPadded(group) == group

\* '|'.join(str(s) for s in group if s is not None), as the list it spells
Join(group) == SelectSeq(group, LAMBDA x : x # None)

\* the filter of update_outdated_pages without the revision_id == None arm
OutdatedNoNull(r) ==
    r.latest_revision_online # None /\ r.revision_id # None
        /\ r.revision_id < r.latest_revision_online

\* update_outdated_pages: or_(revision_id == None,
\*                            revision_id < latest_revision_online)
Outdated(r) ==
    \/ r.revision_id = None
    \/ /\ r.latest_revision_online # None
       /\ r.revision_id < r.latest_revision_online

OutdatedIds(st) == SortedIds({r.id : r \in {x \in st.pages : Outdated(x)}})

\* ------------------------------------------------------------- dictionary
\* one line of the output file: its leading mark, and what follows it: a
\* title or the text of a body (num), or a category name (name)
Line(tag, num, name) == [tag |-> tag, num |-> num, name |-> name]

\* [c.name for c in page.categories]
CategoryNames(st, i) ==
    [k \in 1..Len(CategoriesOf(st, i)) |-> st.cats[CategoriesOf(st, i)[k][2]]]

\* page.redirect_from (model.py:25): the pages whose redirect_to_id is i
redirect_from(st, i) ==
    SortedIds({r.id : r \in {x \in st.pages : x.redirect_to_id = i}})

\* DictEntry.from_wikipage(page)
from_wikipage(st, page) ==
    [title |-> page.title,
     content |-> page.content,
     categories |-> CategoryNames(st, page.id),
     variants |-> [k \in 1..Len(redirect_from(st, page.id)) |->
                     Get(st, redirect_from(st, page.id)[k]).title]]

\* DictEntry._format_kobo: the lines of one entry; the body is the page's
\* text as the Parser leaves it, "" for a page without content
_format_kobo(entry) ==
    << Line("@", entry.title, <<>>) >>
      \o (IF Len(entry.categories) > 0
          THEN << Line(":", None, entry.categories[1]) >> ELSE <<>>)
      \o [k \in 1..Len(entry.variants) |-> Line("&", entry.variants[k], <<>>)]
      \o (IF entry.content # NoContent
          THEN << Line("", entry.content.text, <<>>) >> ELSE <<>>)
      \o << Line("", None, <<>>) >>

\* query(WikiPage).filter(redirect_to_id == None).order_by('title'): NULL
\* titles sort first, rows of one title in primary-key order
RECURSIVE OrderByTitle(_)
OrderByTitle(rows) ==
    IF rows = {} THEN <<>>
    ELSE LET m == CHOOSE x \in rows : \A y \in rows :
                     \/ x.title < y.title
                     \/ x.title = y.title /\ x.id <= y.id
         IN <<m>> \o OrderByTitle(rows \ {m})

\* the rows that order_by('title') alone would give
AllPagesByTitle(st) == OrderByTitle(st.pages)

\* Dictionary.save, lines 28-29: the pages written
PagesToSave(st) == OrderByTitle({r \in st.pages : r.redirect_to_id = None})

\* Dictionary.save, lines 31-34: what is written, entry by entry
save(st) ==
    [k \in 1..Len(PagesToSave(st)) |->
        _format_kobo(from_wikipage(st, PagesToSave(st)[k]))]

\* ------------------------------------------------------------------ calls
NoArgs ==
    [page_ids |-> NoList, page_titles |-> NoList, follow_redirects |-> FALSE,
     query_from |-> None, max_pages |-> None]

NoCall ==
    [op |-> "none", args |-> NoArgs, status |-> "done", exc |-> "none",
     msg |-> "", ret |-> <<>>, out |-> <<>>, pre |-> {}, requested |-> {},
     log |-> <<>>]

\* no update_latest_revisions has returned since the last other operation
\* or edit
NoPrev == [set |-> FALSE, args |-> NoArgs, pages |-> {}, again |-> FALSE,
           before |-> {}]

\* a _continued_response generator that has not been asked for an item yet
NewGen ==
    [live |-> TRUE, requests |-> 0, parsed |-> 0, yielded |-> <<>>,
     served |-> <<>>, sent |-> <<>>]

\* the frame of a call that drives _continued_response: its query_params,
\* the groups still to send (the current one first), the generator's
\* received_results and max_results, and update_pages' locals
Frame(op, qp, groups, max_results, follow) ==
    [op |-> op, qp |-> qp, groups |-> groups, received |-> 0,
     max_results |-> max_results, downloaded |-> <<>>, redirects |-> <<>>,
     follow |-> follow]

PagesQuery(kind, based_on, group) ==
    [kind |-> kind, aplimit |-> None, apfrom |-> None,
     based_on |-> based_on, vals |-> Join(group), cont |-> None]

\* update_pages entered with its list already chosen: lines 144-161
update_pages_frame(based_on, src, follow) ==
    LET groups == _iterable_grouper(src, BatchSize)
    IN Frame("update_pages",
             PagesQuery("content", based_on,
                        IF groups = <<>> THEN <<>> ELSE Head(groups)),
             groups, None, follow)

Top == stack[Len(stack)]
Callers == SubSeq(stack, 1, Len(stack) - 1)

\* callers that return their lists without the linking pass of line 176
UnwindUnlinked(callers, ret, s, d) ==
    [exc |-> "none", sess |-> s, db |-> s,
     ret |-> Flat([k \in 1..Len(callers) |-> callers[k].downloaded]) \o ret]

\* the callers resumed after the innermost update_pages returns ret: each is
\* at line 176, runs link_redirects over its redirect sources (which
\* commits), extends its list and returns it
RECURSIVE Unwind(_, _, _, _)
Unwind(callers, ret, s, d) ==
    IF callers = <<>> THEN [exc |-> "none", ret |-> ret, sess |-> s, db |-> d]
    ELSE LET c == callers[Len(callers)]
             sources == [k \in 1..Len(c.redirects) |-> c.redirects[k][1]]
             l == LinkAll(s, sources)
         IN IF l.exc # "none"
            THEN [exc |-> l.exc, ret |-> <<>>, sess |-> l.st, db |-> d]
            ELSE Unwind(SubSeq(callers, 1, Len(callers) - 1),
                        c.downloaded \o ret, l.st, l.st)

\* ------------------------------------------- one request and its handling
\* What the code does from wiki_request to the next wiki_request, given the
\* frame f, the response and the session: k says how it leaves off
\*   "next"   the generator goes on to another request (continue merged)
\*   "batch"  the generator is exhausted and the loop takes the next group
\*   "end"    the loop over groups is over
\*   "raise"  an exception leaves the operation
\* yielded are the items the generator yielded, results what the
\* result_parse_func returned, parsed whether it was applied
Left(k, f, s, d, exc, yielded, results, parsed) ==
    [k |-> k, f |-> f, sess |-> s, db |-> d, exc |-> exc,
     yielded |-> yielded, results |-> results, parsed |-> parsed]

\* the next group taken by the for loop over _iterable_grouper
NextGroup(f, s, d, yielded) ==
    LET rest == Tail(f.groups) IN
    IF rest = <<>>
    THEN Left("end", [f EXCEPT !.groups = rest], s, d, "none", yielded,
              yielded, TRUE)
    ELSE Left("batch",
              [f EXCEPT !.groups = rest, !.received = 0,
                        !.qp.vals = Join(Head(rest))],
              s, d, "none", yielded, yielded, TRUE)

\* a generator that asks again with the parameters it asked with before
NotMerged(qp, response) == qp

\* query_params.update(response['continue']), line 119
Merged(qp, response) == [qp EXCEPT !.cont = response.cont]

\* lines 109-114 as written: the cap is met only by the item after it
Room(f, results) ==
    IF f.max_results = None THEN Len(results)
    ELSE Min(Len(results), f.max_results - f.received)

\* get_page_list: _continued_response with _merge_page_list, drained by list()
get_page_list_step(f, response, s, d) ==
    LET m == _merge_page_list(response, s)
        results == m.ret
        room == Room(f, results)
        yielded == SubSeq(results, 1, room)
    IN IF room < Len(results) \/ response.cont = None
       THEN Left("end", [f EXCEPT !.received = @ + room], m.st, m.st, "none",
                 yielded, results, TRUE)
       ELSE Left("next", [f EXCEPT !.received = @ + room,
                                   !.qp = Merged(@, response)],
                 m.st, m.st, "none", yielded, results, TRUE)

\* a merge that takes the revision for the fetched one as well
RECURSIVE MergeRevisionsFetched(_, _)
MergeRevisionsFetched(st, pairs) ==
    IF pairs = <<>> THEN st
    ELSE MergeRevisionsFetched(
           Merge(st, [WikiPage(Head(pairs)[1])
                        EXCEPT !.latest_revision_online = Head(pairs)[2],
                               !.revision_id = Head(pairs)[2]]),
           Tail(pairs))

\* line 77 for every yielded (page id, revision id)
RECURSIVE MergeRevisions(_, _)
MergeRevisions(st, pairs) ==
    IF pairs = <<>> THEN st
    ELSE MergeRevisions(
           Merge(st, [WikiPage(Head(pairs)[1])
                        EXCEPT !.latest_revision_online = Head(pairs)[2]]),
           Tail(pairs))

\* update_latest_revisions, lines 76-79: every yielded pair merged, commit
\* when the generator is exhausted
update_latest_revisions_step(f, response, s, d) ==
    LET r == _parse_revision(response) IN
    IF r.exc # "none" THEN Left("raise", f, s, d, r.exc, <<>>, <<>>, TRUE)
    ELSE LET s1 == MergeRevisions(s, r.ret) IN
         IF response.cont # None
         THEN Left("next", [f EXCEPT !.received = @ + Len(r.ret),
                                     !.qp = Merged(@, response)],
                   s1, d, "none", r.ret, r.ret, TRUE)
         ELSE NextGroup(f, s1, s1, r.ret)

\* update_pages, lines 163-169: the generator's items are unpacked into two
\* names, so a third item (the first of a continued response) is a
\* ValueError; _parse_pages_and_add has run on that response by then
update_pages_step(f, response, s, d) ==
    LET r == _parse_pages_and_add(response, s)
        items == <<r.downloaded, r.redirects>>
    IN IF r.exc # "none"
       THEN Left("raise", f, r.st, d, r.exc, <<>>, <<>>, TRUE)
       ELSE IF f.received >= 2
       THEN Left("raise", f, r.st, d, "ValueError", <<r.downloaded>>, items,
                 TRUE)
       ELSE IF response.cont # None
       THEN Left("next", [f EXCEPT !.received = @ + 2,
                                   !.qp = Merged(@, response)],
                 r.st, d, "none", items, items, TRUE)
       ELSE NextGroup([f EXCEPT !.downloaded = @ \o r.downloaded,
                                !.redirects = @ \o r.redirects],
                      r.st, r.st, items)

\* the result_parse_func and the consumer of the running operation
Consume(f, response, s, d) ==
    IF f.op = "get_page_list" THEN get_page_list_step(f, response, s, d)
    ELSE IF f.op = "update_latest_revisions"
    THEN update_latest_revisions_step(f, response, s, d)
    ELSE update_pages_step(f, response, s, d)

\* a generator that applies result_parse_func before it looks for the error
\* section: response['query'] of an error response is a KeyError
HandleParseFirst(f, response, s, d) ==
    IF response.error
    THEN Left("raise", f, s, d, "KeyError", <<>>, <<>>, TRUE)
    ELSE Consume(f, response, s, d)

\* lines 103-108: the error section is looked for first
Handle(f, response, s, d) ==
    IF response.error
    THEN Left("raise", f, s, d, "MediaWikiException", <<>>, <<>>, FALSE)
    ELSE Consume(f, response, s, d)

\* ---------------------------------------------------------------- actions
Idle == stack = <<>>

\* a caller begins an operation when none runs
Called ==
    /\ Idle
    /\ gen' = [NewGen EXCEPT !.live = FALSE]

\* a caller that begins at most MaxCalls operations
Budget == calls < MaxCalls /\ calls' = calls + 1

\* lists a caller may pass: ids or titles in ascending order
IdLists ==
    {SortedIds(S) : S \in {T \in SUBSET AllIds : Cardinality(T) <= MaxArgLen}}
TitleLists ==
    {SortedIds(S) : S \in {T \in SUBSET AllTitles : Cardinality(T) <= MaxArgLen}}

\* (page_ids, page_titles) as a caller may give them: one of the two, none
\* of them, or an empty page_ids beside titles
AddrArgs ==
    {<<ids, NoList>> : ids \in IdLists}
        \cup {<<NoList, titles>> : titles \in TitleLists}
        \cup {<<<<>>, titles>> : titles \in {t \in TitleLists : Len(t) = 1}}
        \cup {<<NoList, NoList>>}

Begin(op, args, pre) ==
    [op |-> op, args |-> args, status |-> "running", exc |-> "none",
     msg |-> "", ret |-> <<>>, out |-> <<>>, pre |-> pre, requested |-> {},
     log |-> <<>>]

\* the operation is over: it returned ret, or exc left it
Ended(c, exc, msg, ret, s, d) ==
    /\ stack' = <<>>
    /\ sess' = s
    /\ db' = d
    /\ call' = [c EXCEPT !.status = IF exc = "none" THEN "done" ELSE "raised",
                         !.exc = exc, !.msg = msg, !.ret = ret]
    /\ prev' = IF c.op = "update_latest_revisions" /\ exc = "none"
               THEN [set |-> TRUE, args |-> c.args, pages |-> s.pages,
                     again |-> prev.set /\ prev.args = c.args,
                     before |-> IF prev.set /\ prev.args = c.args
                                THEN prev.pages ELSE {}]
               ELSE NoPrev

\* the operation goes on with the given stack
Goes(c, st, s, d) ==
    /\ stack' = st
    /\ sess' = s
    /\ db' = d
    /\ call' = c
    /\ prev' = prev

\* get_page_list(session, query_from, max_pages), lines 29-35
GetPageList(query_from, max_pages) ==
    /\ Called
    /\ LET n_batch == IF max_pages = None \/ max_pages > AllPagesLimit
                      THEN AllPagesLimit ELSE max_pages
           query_params == [kind |-> "allpages", aplimit |-> n_batch,
                            apfrom |-> query_from, based_on |-> "none",
                            vals |-> <<>>, cont |-> None]
       IN Goes(Begin("get_page_list",
                     [NoArgs EXCEPT !.query_from = query_from,
                                    !.max_pages = max_pages],
                     sess.pages),
               << Frame("get_page_list", query_params, << <<>> >>, max_pages,
                        FALSE) >>,
               sess, db)
    /\ UNCHANGED <<remoteRev, untouched>>

\* an operation that batches a list: TypeError when the list is None, over
\* at once when it is empty, else ready for its first request
Batched(c, op, kind, based_on, src, follow) ==
    IF src = NoList THEN Ended(c, "TypeError", "", <<>>, sess, db)
    ELSE LET groups == _iterable_grouper(src, BatchSize) IN
         IF groups = <<>> THEN Ended(c, "none", "", <<>>, sess, db)
         ELSE Goes(c, << Frame(op, PagesQuery(kind, based_on, Head(groups)),
                               groups, None, follow) >>, sess, db)

\* update_latest_revisions(session, page_ids, page_titles), lines 59-72
UpdateLatestRevisions(page_ids, page_titles) ==
    /\ Called
    /\ LET both_none == page_ids = NoList /\ page_titles = NoList
           based_on == IF both_none \/ page_ids # NoList THEN "pageids"
                       ELSE "titles"
           src == IF both_none THEN StoredIds(sess)
                  ELSE Or(page_ids, page_titles)
       IN Batched(Begin("update_latest_revisions",
                        [NoArgs EXCEPT !.page_ids = page_ids,
                                       !.page_titles = page_titles], {}),
                  "update_latest_revisions", "revisions", based_on, src, FALSE)
    /\ UNCHANGED <<remoteRev, untouched>>

\* update_pages(session, page_ids, page_titles, follow_redirects), 144-159
UpdatePages(page_ids, page_titles, follow_redirects) ==
    /\ Called
    /\ Batched(Begin("update_pages",
                     [NoArgs EXCEPT !.page_ids = page_ids,
                                    !.page_titles = page_titles,
                                    !.follow_redirects = follow_redirects],
                     sess.pages),
               "update_pages", "content",
               IF page_ids # NoList THEN "pageids" ELSE "titles",
               Or(page_ids, page_titles), follow_redirects)
    /\ UNCHANGED <<remoteRev, untouched>>

\* update_outdated_pages(session), lines 129-132: page_ids is a generator
\* over the query, which is a true value even when it yields nothing
UpdateOutdatedPages ==
    /\ Called
    /\ LET ids == OutdatedIds(sess)
           c == Begin("update_outdated_pages", NoArgs, sess.pages)
           groups == _iterable_grouper(ids, BatchSize)
       IN IF groups = <<>> THEN Ended(c, "none", "", <<>>, sess, db)
          ELSE Goes(c, << Frame("update_pages",
                                PagesQuery("content", "pageids", Head(groups)),
                                groups, None, FALSE) >>, sess, db)
    /\ UNCHANGED <<remoteRev, untouched>>

\* link_redirects(session, page_ids), lines 238-254
LinkRedirects(page_ids) ==
    /\ Called
    /\ LET l == LinkAll(sess, page_ids)
           c == Begin("link_redirects", [NoArgs EXCEPT !.page_ids = page_ids],
                     sess.pages)
       IN IF l.exc # "none" THEN Ended(c, l.exc, "", <<>>, l.st, db)
          ELSE Ended(c, "none", "", <<>>, l.st, l.st)
    /\ UNCHANGED <<remoteRev, untouched>>

\* Dictionary(session).save(): the entries written are kept in call.out
Save ==
    /\ Called
    /\ Ended([Begin("save", NoArgs, sess.pages) EXCEPT !.out = save(sess)],
             "none", "", <<>>, sess, db)
    /\ UNCHANGED <<remoteRev, untouched>>

\* update_pages past its loop, lines 172-180: the recursive call for the
\* redirect targets, or the return through the callers
AfterBatches(c, f, s, d) ==
    IF f.follow /\ Len(f.redirects) > 0
    THEN IF Len(stack) >= MaxDepth
         THEN Ended(c, "RecursionError", "", <<>>, s, d)
         ELSE Goes(c,
                   Callers \o << f, update_pages_frame("titles",
                       [k \in 1..Len(f.redirects) |-> f.redirects[k][2]],
                       f.follow) >>,
                   s, d)
    ELSE LET u == Unwind(Callers, f.downloaded, s, d)
         IN Ended(c, u.exc, "", u.ret, u.sess, u.db)

\* the query parameters of a request as wiki_request is given them, line
\* 103: by which call of the running calls (depth), whether it is the first
\* request of its generator, the key the list is under, the list, and the
\* continuation parameters
Sent(qp, depth, first) ==
    [depth |-> depth, first |-> first, based_on |-> qp.based_on,
     vals |-> qp.vals, cont |-> qp.cont]

\* the running generator has asked wiki_request(query_params) and got
\* response: the handling of it
Answered(response) ==
    LET h == Handle(Top, response, sess, db)
        g == IF gen.live THEN gen ELSE NewGen
        c == [call EXCEPT
                 !.requested = @ \cup Range(Top.qp.vals),
                 !.log = Append(@, Sent(Top.qp, Len(stack), ~gen.live))]
    IN /\ gen' = [live |-> h.k = "next",
                  requests |-> g.requests + 1,
                  parsed |-> IF h.parsed THEN g.parsed + 1 ELSE g.parsed,
                  yielded |-> g.yielded \o h.yielded,
                  served |-> Append(g.served,
                               [cont |-> response.cont,
                                error |-> response.error,
                                info |-> response.info,
                                missing |-> {k \in 1..Len(response.items) :
                                               response.items[k].missing},
                                ids |-> [k \in 1..Len(response.items) |->
                                           response.items[k].pageid],
                                results |-> h.results]),
                  sent |-> Append(g.sent, Top.qp.cont)]
       /\ IF h.k = "raise"
          THEN Ended(c, h.exc, response.info, <<>>, h.sess, h.db)
          ELSE IF h.k \in {"next", "batch"}
          THEN Goes(c, Callers \o <<h.f>>, h.sess, h.db)
          ELSE IF h.f.op = "update_pages"
          THEN AfterBatches(c, h.f, h.sess, h.db)
          ELSE Ended(c, "none", "", <<>>, h.sess, h.db)
       /\ UNCHANGED <<remoteRev, untouched, calls>>

\* wiki_request answered by the remote
WikiRequest ==
    /\ ~Idle
    /\ Answered(ServerResponse(Top.qp, serverLimit, remoteRev))

\* wiki_request answered with an error section
WikiRequestError ==
    /\ ~Idle
    /\ Answered(ErrorResponse)

\* somebody edits page p on the wiki while no operation runs; what the last
\* operation returned is of the wiki as it was, and is dropped
RemoteEdit(p) ==
    /\ Idle
    /\ SeqSum([q \in PageIds |-> remoteRev[q] - 1]) < MaxEdits
    /\ remoteRev' = [remoteRev EXCEPT ![p] = @ + 1]
    /\ prev' = NoPrev
    /\ call' = NoCall
    /\ gen' = [NewGen EXCEPT !.live = FALSE]
    /\ UNCHANGED <<untouched, sess, db, stack, calls>>

\* ----------------------------------------------------------------- parser
\* A text is the sequence of its characters; positions are counted from 0
\* as the code counts them.

\* str.find's answer when there is no occurrence
NotFound == -1

\* content[a:b]
Slice(content, a, b) == SubSeq(content, a + 1, Min(b, Len(content)))

\* content.find(pat, from)
find(content, pat, from) ==
    LET hits == {i \in from..(Len(content) - Len(pat)) :
                    SubSeq(content, i + 1, i + Len(pat)) = pat}
    IN IF hits = {} THEN NotFound
       ELSE CHOOSE i \in hits : \A j \in hits : i <= j

template_start_delimiter == <<"{", "{">>
template_stop_delimiter == <<"}", "}">>

\* one activation of _remove_templates on content: the line it is at and
\* its local variables
NewFrame(content) ==
    [pc |-> "find", content |-> content, start_idx |-> None,
     stop_idx |-> None, next_start_idx |-> None]

\* lines 60-61
Find(frame) ==
    [frame EXCEPT
        !.pc = "test",
        !.start_idx = find(frame.content, template_start_delimiter, 0),
        !.stop_idx =
            find(frame.content, template_stop_delimiter,
                 find(frame.content, template_start_delimiter, 0)
                     + Len(template_start_delimiter))]

\* a test that returns only when there is no open marker
ReturnsOnNoStart(frame) == frame.start_idx = NotFound

\* line 62
Returns(frame) == frame.start_idx = NotFound \/ frame.stop_idx = NotFound

\* line 65
FindNext(frame) ==
    [frame EXCEPT
        !.pc = "cut",
        !.next_start_idx =
            find(frame.content, template_start_delimiter,
                 frame.start_idx + Len(template_start_delimiter))]

\* a test that takes every template for a plain one
NeverNested(frame) == FALSE

\* line 66
Nested(frame) ==
    frame.next_start_idx # NotFound /\ frame.next_start_idx < frame.stop_idx

\* line 69: the argument of the call within
Inner(frame) ==
    Slice(frame.content, frame.next_start_idx,
          frame.stop_idx + Len(template_stop_delimiter))

\* lines 68-71, with what the call within returned
Splice(frame, returned) ==
    [frame EXCEPT
        !.pc = "find",
        !.content = Slice(frame.content, 0, frame.next_start_idx)
            \o returned
            \o Slice(frame.content,
                     frame.stop_idx + Len(template_stop_delimiter),
                     Len(frame.content))]

\* line 73
Cut(frame) ==
    [frame EXCEPT
        !.pc = "find",
        !.content = Slice(frame.content, 0, frame.start_idx)
            \o Slice(frame.content,
                     frame.stop_idx + Len(template_stop_delimiter),
                     Len(frame.content))]

\* content.replace(old, new)
RECURSIVE replace(_, _, _)
replace(content, old, new) ==
    IF find(content, old, 0) = NotFound THEN content
    ELSE Slice(content, 0, find(content, old, 0)) \o new
            \o replace(Slice(content, find(content, old, 0) + Len(old),
                             Len(content)), old, new)

\* the end of the longest run of characters outside stops that begins at j
RECURSIVE RunEnd(_, _, _)
RunEnd(content, j, stops) ==
    IF j < Len(content) /\ content[j + 1] \notin stops
    THEN RunEnd(content, j + 1, stops) ELSE j

NoMatch == [found |-> FALSE, start |-> 0, end |-> 0, target |-> <<>>,
            name |-> <<>>]

\* the pattern \[\[([^|\]]+)(?:\|([^\]]+))?\]\] tried at position i; both
\* groups are runs that end only at a character the pattern needs next, so
\* the longest run is the only one that can match
MatchAt(content, i) ==
    LET k == RunEnd(content, i + 2, {"|", "]"})
        e == RunEnd(content, k + 1, {"]"})
    IN IF Slice(content, i, i + 2) # <<"[", "[">> \/ k = i + 2 THEN NoMatch
       ELSE IF Slice(content, k, k + 2) = <<"]", "]">>
       THEN [found |-> TRUE, start |-> i, end |-> k + 2,
             target |-> Slice(content, i + 2, k), name |-> <<>>]
       ELSE IF Slice(content, k, k + 1) = <<"|">> /\ e > k + 1
                 /\ Slice(content, e, e + 2) = <<"]", "]">>
       THEN [found |-> TRUE, start |-> i, end |-> e + 2,
             target |-> Slice(content, i + 2, k),
             name |-> Slice(content, k + 1, e)]
       ELSE NoMatch

\* re.search(pattern, content): the leftmost match
search(content) ==
    LET starts == {i \in 0..(Len(content) - 1) : MatchAt(content, i).found}
    IN IF starts = {} THEN NoMatch
       ELSE MatchAt(content, CHOOSE i \in starts : \A j \in starts : i <= j)

\* target.replace(' ', '-').lower(); "A" is the capital letter of the texts
Slug(target) ==
    [k \in 1..Len(target) |->
        IF target[k] = " " THEN "-"
        ELSE IF target[k] = "A" THEN "a" ELSE target[k]]

\* '[{}](#{})'.format(name, slug) with name = match.group(2) or target
Link(match) ==
    <<"[">> \o (IF match.name # <<>> THEN match.name ELSE match.target)
        \o <<"]", "(", "#">> \o Slug(match.target) \o <<")">>

\* __replace_links, lines 29-35: one pass of the while loop
LinkPass(content) ==
    LET match == search(content)
    IN IF ~match.found
       THEN [return |-> TRUE, content |-> content, match |-> match]
       ELSE [return |-> FALSE, match |-> match,
             content |-> Slice(content, 0, match.start) \o Link(match)
                           \o Slice(content, match.end, Len(content))]

\* no Parser is at work
NoParser ==
    [op |-> "none", pc |-> "done", text |-> <<>>, content |-> <<>>,
     iters |-> 0, written |-> <<>>, frames |-> <<>>]

\* Parser(text), lines 12-13, about to run op
NewParser(op, text) ==
    [op |-> op, pc |-> "call", text |-> text, content |-> text, iters |-> 0,
     written |-> <<>>, frames |-> <<>>]

\* a new database, and a wiki of unedited pages with the given redirects
Start(redirects) ==
    /\ remoteRev = [p \in PageIds |-> 1]
    /\ remoteRedirect = redirects
    /\ serverLimit \in 1..MaxServerLimit
    /\ sess = EmptyStore
    /\ db = EmptyStore
    /\ stack = <<>>
    /\ call = NoCall
    /\ gen = [NewGen EXCEPT !.live = FALSE]
    /\ prev = NoPrev
    /\ calls = 0

Init ==
    /\ Start(OneRedirect)
    /\ parser = NoParser

\* any caller of the API: any operation with any argument, MaxCalls times
Next ==
    \/ \E q \in {0} \cup {TitleOf(p) : p \in PageIds},
          m \in {None} \cup (1..MaxPagesArg) : GetPageList(q, m) /\ Budget
    \/ \E a \in AddrArgs : UpdateLatestRevisions(a[1], a[2]) /\ Budget
    \/ \E a \in AddrArgs, follow \in BOOLEAN :
          UpdatePages(a[1], a[2], follow) /\ Budget
    \/ UpdateOutdatedPages /\ Budget
    \/ \E ids \in IdLists : LinkRedirects(ids) /\ Budget
    \/ WikiRequest
    \/ WikiRequestError
    \/ \E p \in PageIds : RemoteEdit(p)

Spec == Init /\ [][Next]_vars

\* main (wikidict.py:36-52) opens a session on the database and runs the
\* refresh operations on it; an exception that leaves an operation ends the
\* process, and what the session had not committed is gone with it
Restart ==
    /\ Idle
    /\ call.status = "raised"
    /\ sess' = db
    /\ call' = NoCall
    /\ gen' = [NewGen EXCEPT !.live = FALSE]
    /\ prev' = NoPrev
    /\ UNCHANGED <<remoteRev, untouched, db, stack, calls>>

\* the refresh cycle of main (wikidict.py:49-52), its three operations begun
\* in any order and any number of times on a remote that answers every
\* request, while the wiki is edited
NextMain ==
    \/ /\ call.status # "raised"
       /\ \E m \in {None} \cup (1..MaxPagesArg) :
             GetPageList(0, m) /\ UNCHANGED calls
    \/ /\ call.status # "raised"
       /\ \E ids \in {NoList} \cup IdLists :
             UpdateLatestRevisions(ids, NoList) /\ UNCHANGED calls
    \/ /\ call.status # "raised"
       /\ UpdateOutdatedPages /\ UNCHANGED calls
    \/ WikiRequest
    \/ Restart
    \/ /\ call.status # "raised"
       /\ \E p \in PageIds : RemoteEdit(p)

SpecMain == Init /\ [][NextMain]_vars

\* wikis that differ in their redirects: one stub, a chain through every
\* page, a page that redirects to itself, two pages redirecting to each other
RedirectChain ==
    [p \in PageIds |-> IF p < NPages THEN TitleOf(p + 1) ELSE None]
SelfRedirect == [p \in PageIds |-> IF p = 1 THEN TitleOf(1) ELSE None]
RedirectCycle ==
    [p \in PageIds |-> IF p = 1 THEN TitleOf(2)
                       ELSE IF p = 2 THEN TitleOf(1) ELSE None]
RedirectGraphs == {OneRedirect, RedirectChain, SelfRedirect, RedirectCycle}

InitRedirects ==
    /\ \E redirects \in RedirectGraphs : Start(redirects)
    /\ parser = NoParser

\* id lists of pages the remote holds
HeldIdLists == {ids \in IdLists : ids # <<>> /\ Range(ids) \subseteq PageIds}

\* a caller that fetches pages by id, links redirects and writes the
\* dictionary, in any order and any number of times
NextRedirects ==
    \/ \E ids \in HeldIdLists, follow \in BOOLEAN :
          UpdatePages(ids, NoList, follow) /\ UNCHANGED calls
    \/ \E ids \in HeldIdLists : LinkRedirects(ids) /\ UNCHANGED calls
    \/ Save /\ UNCHANGED calls
    \/ WikiRequest

SpecRedirects == InitRedirects /\ [][NextRedirects]_vars

\* lists of any length over the ids, and over the titles, the remote may be
\* asked for: more than one batch, the last one short or full
BatchArgs ==
    {<<SortedIds(S), NoList>> : S \in SUBSET AllIds}
        \cup {<<NoList, SortedIds(S)>> : S \in SUBSET AllTitles}
        \cup {<<<<>>, SortedIds(S)>> : S \in SUBSET AllTitles}
        \cup {<<NoList, NoList>>}

\* a caller that begins the two batching operations MaxCalls times, on a
\* remote that answers every request
NextBatches ==
    \/ \E a \in BatchArgs : UpdateLatestRevisions(a[1], a[2]) /\ Budget
    \/ \E a \in BatchArgs : UpdatePages(a[1], a[2], FALSE) /\ Budget
    \/ WikiRequest

SpecBatches == Init /\ [][NextBatches]_vars

\* --------------------------------------------------------- parser at work
\* the texts of at most n tokens
TextsOf(tokens, n) ==
    {Flat(ts) : ts \in UNION {[1..k -> tokens] : k \in 0..n}}

TemplateTokens == {<<"{", "{">>, <<"}", "}">>, <<"a">>, <<"b">>}
LinkTokens ==
    {<<"[", "[">>, <<"]", "]">>, <<"|">>, <<"A", " ", "b">>, <<"c">>, <<"'">>}

\* the texts the methods are called on
TemplateTexts == TextsOf(TemplateTokens, MaxTemplateTokens)
LinkTexts == TextsOf(LinkTokens, MaxLinkTokens)

\* where the links written so far lie after match is replaced by a link of
\* length n: those behind it move, one it overlaps is gone
Moved(written, match, n) ==
    LET kept == SelectSeq(written, LAMBDA w : w[2] <= match.start
                                              \/ w[1] >= match.end)
    IN [k \in 1..Len(kept) |->
          IF kept[k][1] >= match.end
          THEN <<kept[k][1] + n - (match.end - match.start),
                 kept[k][2] + n - (match.end - match.start)>>
          ELSE kept[k]]

\* Parser(text).remove_templates(), lines 46-51: _remove_templates is
\* entered with the content
RemoveTemplates(text) ==
    /\ parser.op = "none"
    /\ parser' = [NewParser("remove_templates", text) EXCEPT
                     !.frames = <<NewFrame(text)>>]
    /\ UNCHANGED <<remoteRev, remoteRedirect, serverLimit, sess, db, stack,
                   call, gen, prev, calls>>

\* one line of the innermost _remove_templates at work
RemoveTemplatesStep ==
    /\ parser.op = "remove_templates"
    /\ parser.pc = "call"
    /\ LET n == Len(parser.frames)
           frame == parser.frames[n]
       IN parser' =
            IF frame.pc = "find"
            THEN [parser EXCEPT !.frames[n] = Find(frame)]
            ELSE IF frame.pc = "test" /\ Returns(frame) /\ n = 1
            THEN [parser EXCEPT !.frames = <<>>, !.pc = "done",
                                !.content = frame.content]
            ELSE IF frame.pc = "test" /\ Returns(frame)
            THEN [parser EXCEPT
                     !.frames = Append(SubSeq(@, 1, n - 2),
                                       Splice(@[n - 1], frame.content))]
            ELSE IF frame.pc = "test"
            THEN [parser EXCEPT !.frames[n] = FindNext(frame)]
            ELSE IF Nested(frame)
            THEN [parser EXCEPT !.frames = Append(@, NewFrame(Inner(frame)))]
            ELSE [parser EXCEPT !.frames[n] = Cut(frame)]
    /\ UNCHANGED <<remoteRev, remoteRedirect, serverLimit, sess, db, stack,
                   call, gen, prev, calls>>

\* Parser(text).to_markdown(), lines 20-22: the quotes are replaced and
\* __replace_links is entered
ToMarkdown(text) ==
    /\ parser.op = "none"
    /\ parser' = [NewParser("to_markdown", text) EXCEPT
                     !.pc = "loop",
                     !.content = replace(replace(text, <<"'", "'", "'">>,
                                                 <<"*", "*">>),
                                         <<"'", "'">>, <<"*">>)]
    /\ UNCHANGED <<remoteRev, remoteRedirect, serverLimit, sess, db, stack,
                   call, gen, prev, calls>>

\* one pass of __replace_links' loop
ReplaceLinksPass ==
    /\ parser.op = "to_markdown"
    /\ parser.pc = "loop"
    /\ parser.iters <= Len(parser.text)
    /\ LET p == LinkPass(parser.content)
           n == Len(Link(p.match))
       IN parser' = [parser EXCEPT
              !.content = p.content,
              !.pc = IF p.return THEN "done" ELSE "loop",
              !.iters = @ + 1,
              !.written = IF p.return THEN @
                          ELSE Append(Moved(@, p.match, n),
                                      <<p.match.start, p.match.start + n>>)]
    /\ UNCHANGED <<remoteRev, remoteRedirect, serverLimit, sess, db, stack,
                   call, gen, prev, calls>>

\* no download is under way and no Parser is made yet
InitParser ==
    /\ Start(OneRedirect)
    /\ serverLimit = MaxServerLimit
    /\ parser = NoParser

NextParser ==
    \/ /\ parser.op = "none"
       /\ \E text \in TemplateTexts : RemoveTemplates(text)
    \/ /\ parser.op = "none"
       /\ \E text \in LinkTexts : ToMarkdown(text)
    \/ RemoveTemplatesStep
    \/ ReplaceLinksPass

\* the method, once called, runs on
SpecParser ==
    InitParser /\ [][NextParser]_vars /\ WF_vars(RemoveTemplatesStep)

\* ----------------------------------------------------------------- claims
\* the remote listing from query_from on, in title order
Listing(query_from) == SortedIds({p \in PageIds : TitleOf(p) >= query_from})

\* max_results of the generators of the running (or last) operation
GenMax == IF call.op = "get_page_list" THEN call.args.max_pages ELSE None

ContentFetch == call.op \in {"update_pages", "update_outdated_pages"}

\* C1: a generator given max_results = N yields at most N items, and once
\* it has yielded the N-th item it issues no further wiki_request: no call
\* that is about to send a request has received_results = max_results.
C1_NoRequestPastCap ==
    /\ GenMax # None => Len(gen.yielded) <= GenMax
    /\ (~Idle /\ Top.max_results # None) => Top.received < Top.max_results

\* C2: get_page_list(query_from, max_pages = N) begun on an empty store,
\* the remote listing more than N pages from query_from on, never commits
\* more than N pages, and when it returns the store holds exactly the first
\* N listed pages, id and title.
C2_ExactlyFirstN ==
    LET N == call.args.max_pages
        listed == Listing(call.args.query_from)
    IN (call.op = "get_page_list" /\ N # None /\ call.pre = {}
            /\ Len(listed) > N)
       => /\ Cardinality(db.pages) <= N
          /\ call.status = "done"
                => {<<r.id, r.title>> : r \in db.pages}
                     = {<<listed[k], TitleOf(listed[k])>> : k \in 1..N}

\* C3: a response with an error section ends the generator at once with
\* MediaWikiException carrying the server's message: it is the generator's
\* last response (no retry, no further request), result_parse_func was not
\* applied to it, and nothing of it was yielded.
C3_ErrorRaisesAtOnce ==
    \A k \in 1..Len(gen.served) :
        gen.served[k].error
        => /\ k = Len(gen.served)
           /\ Idle
           /\ call.status = "raised"
           /\ call.exc = "MediaWikiException"
           /\ call.msg = gen.served[k].info
           /\ gen.parsed = gen.requests - 1
           /\ gen.yielded = Flat([j \in 1..(k - 1) |-> gen.served[j].results])

C3_Witness ==
    /\ Len(gen.served) >= 2
    /\ Last(gen.served).error
    /\ Len(gen.yielded) > 0

\* C4: a generator without max_results sends each response's continuation
\* with its next request and asks again only after a response that carries
\* one; when it is exhausted without an error it has yielded the extracted
\* items of every response, each once, in response order then item order.
C4_YieldsAllInOrder ==
    /\ \A k \in 2..Len(gen.sent) :
          /\ gen.served[k - 1].cont # None
          /\ gen.sent[k] = gen.served[k - 1].cont
    /\ (GenMax = None /\ ~gen.live /\ gen.requests > 0 /\ call.exc = "none")
       => /\ gen.yielded = Flat([k \in 1..Len(gen.served) |->
                                   gen.served[k].results])
          /\ Last(gen.served).cont = None

C4_Witness ==
    /\ GenMax = None
    /\ ~gen.live
    /\ call.exc = "none"
    /\ Len(gen.served) >= 2
    /\ Len(gen.yielded) >= 2

\* C5: in the content fetch a page object marked missing is skipped without
\* raising, and the other pages of the same response are stored.
C5_MissingPageSkipped ==
    (ContentFetch /\ gen.served # <<>> /\ Last(gen.served).missing # {})
    => /\ call.exc # "TypeError"
       /\ \A k \in 1..Len(Last(gen.served).ids) :
             k \notin Last(gen.served).missing
             => HasPage(sess, Last(gen.served).ids[k])

\* C6: however often pages are fetched, no page is associated with the same
\* Category twice, in the session or in the committed store.
C6_NoDuplicateCategory ==
    \A st \in {sess, db} : \A r \in st.pages :
        LET cs == CategoriesOf(st, r.id)
        IN \A a, b \in 1..Len(cs) : a # b => cs[a] # cs[b]

\* update_pages has returned after fetching again a page that had content,
\* and so categories, before
C6_Witness ==
    /\ call.op = "update_pages"
    /\ call.status = "done"
    /\ \E r \in call.pre :
          /\ r.content # NoContent
          /\ r.id \in Range(call.ret)
          /\ CategoriesOf(sess, r.id) # <<>>

\* C7: there is at most one Category row per name, in the session (before
\* the batch commit) and in the committed store.
C7_OneCategoryPerName ==
    \A st \in {sess, db} : \A a, b \in 1..Len(st.cats) :
        a # b => st.cats[a] # st.cats[b]

\* one response brought two pages that share a category name, and the
\* fetch returned
C7_Witness ==
    /\ call.op = "update_pages"
    /\ call.status = "done"
    /\ \E k \in 1..Len(gen.served) : \E a, b \in 1..Len(gen.served[k].ids) :
          /\ a # b
          /\ gen.served[k].missing = {}
          /\ Range(RemoteCategories(gen.served[k].ids[a]))
                \cap Range(RemoteCategories(gen.served[k].ids[b])) # {}

\* C8: update_latest_revisions run a second time with the same arguments
\* against the unchanged remote leaves the pages as the first run left
\* them, one row per id.
C8_RevisionsIdempotent ==
    prev.again
    => /\ prev.pages = prev.before
       /\ \A r1, r2 \in prev.pages : r1.id = r2.id => r1 = r2

\* the second run has returned, over a page that was listed before
C8_Witness ==
    /\ prev.again
    /\ \E r \in prev.pages :
          r.title # None /\ r.latest_revision_online # None

\* outdated, in the words of the claim: local_revision absent, or
\* local_revision < remote_revision
ClaimOutdated(r) ==
    \/ r.revision_id = None
    \/ /\ r.revision_id # None
       /\ r.latest_revision_online # None
       /\ r.revision_id < r.latest_revision_online

\* C9: update_outdated_pages requests content only for pages that were
\* outdated when it began, and when it returns it has requested every one
\* of them and returns exactly their ids.
C9_FetchesExactlyOutdated ==
    call.op = "update_outdated_pages"
    => LET want == {r.id : r \in {x \in call.pre : ClaimOutdated(x)}}
       IN /\ call.requested \subseteq want
          /\ call.status = "done"
                => /\ call.requested = want
                   /\ Range(call.ret) = want
                   /\ Len(call.ret) = Cardinality(want)

\* it returned having fetched a page with an older local revision and left
\* alone a page whose local revision is the remote one
C9_Witness ==
    /\ call.op = "update_outdated_pages"
    /\ call.status = "done"
    /\ \E x \in call.pre :
          x.revision_id # None /\ x.revision_id < x.latest_revision_online
    /\ \E y \in call.pre :
          y.revision_id # None /\ y.revision_id = y.latest_revision_online

\* C10: when update_outdated_pages has returned, no stored page has
\* local_revision < remote_revision, and every fetched page has
\* local_revision = remote_revision = the remote's revision, with content.
C10_NoneOutdatedAfter ==
    (call.op = "update_outdated_pages" /\ call.status = "done")
    => /\ \A st \in {sess, db} : \A r \in st.pages :
             ~(r.revision_id # None /\ r.latest_revision_online # None
                 /\ r.revision_id < r.latest_revision_online)
       /\ \A i \in Range(call.ret) :
             /\ HasPage(db, i)
             /\ Get(db, i).revision_id = remoteRev[i]
             /\ Get(db, i).latest_revision_online = remoteRev[i]
             /\ Get(db, i).content = Content(i, remoteRev[i])
             /\ Get(db, i).content # NoContent

C10_Witness ==
    /\ call.op = "update_outdated_pages"
    /\ call.status = "done"
    /\ \E x \in call.pre :
          /\ x.revision_id # None
          /\ x.revision_id < x.latest_revision_online
          /\ x.id \in Range(call.ret)

\* the id of the page a stored page's redirect directive names
DirectiveTarget(st, r) == FirstTitled(st, RedirectMatch(r.content))
Pending(st, r) ==
    /\ r.content # NoContent
    /\ RedirectMatch(r.content) # None
    /\ TitledIds(st, RedirectMatch(r.content)) = {}
Resolvable(st, r) ==
    /\ r.content # NoContent
    /\ RedirectMatch(r.content) # None
    /\ TitledIds(st, RedirectMatch(r.content)) # {}

\* the entries of the written dictionary headed by title t
EntriesOf(out, t) == {k \in 1..Len(out) : out[k][1].num = t}
VariantsOf(entry) ==
    SelectSeq(entry, LAMBDA l : l.tag = "&")

\* C11: a page fetched without follow_redirects whose directive names a
\* title that is not stored has no redirect_target; link_redirects run on a
\* source whose target is stored sets the source's redirect_target to the
\* target, committed; and Dictionary.save then writes no entry for the
\* source and the source's title as a variant line of the target's entry.
C11_RedirectEndToEnd ==
    /\ (call.op = "update_pages" /\ ~call.args.follow_redirects
            /\ call.status = "done")
       => \A i \in Range(call.ret) :
             Pending(sess, Get(sess, i)) => Get(sess, i).redirect_to_id = None
    /\ (call.op = "link_redirects" /\ call.status = "done")
       => \A i \in Range(call.args.page_ids) :
             (HasPage(db, i) /\ Resolvable(db, Get(db, i)))
             => Get(db, i).redirect_to_id = DirectiveTarget(db, Get(db, i))
    /\ (call.op = "save" /\ call.status = "done")
       => \A r \in sess.pages :
             r.redirect_to_id # None
             => /\ EntriesOf(call.out, r.title) = {}
                /\ Get(sess, r.redirect_to_id).redirect_to_id = None
                   => \E k \in EntriesOf(call.out,
                                         Get(sess, r.redirect_to_id).title) :
                         \E v \in 1..Len(VariantsOf(call.out[k])) :
                             VariantsOf(call.out[k])[v].num = r.title

\* the dictionary has been written with a source linked to another page
C11_Witness ==
    /\ call.op = "save"
    /\ call.status = "done"
    /\ \E r \in sess.pages :
          /\ r.redirect_to_id # None
          /\ r.redirect_to_id # r.id
          /\ Get(sess, r.redirect_to_id).redirect_to_id = None
          /\ EntriesOf(call.out, Get(sess, r.redirect_to_id).title) # {}

\* the pages reached from the pages of S along the remote's redirects
RECURSIVE Reach(_)
Reach(S) ==
    LET more == {PageOfTitle(RemoteRedirect(p)) :
                    p \in {q \in S : RemoteRedirect(q) # None}}
    IN IF more \subseteq S THEN S ELSE Reach(S \cup more)

\* C12: when update_pages with follow_redirects returns, every page of the
\* redirect chains of the requested pages is stored with content, every
\* redirecting page of them has as redirect_target the page its directive
\* names, and the returned list holds the ids of all of them.
C12_FollowStoresChain ==
    (call.op = "update_pages" /\ call.args.follow_redirects
        /\ call.status = "done" /\ call.args.page_ids # NoList)
    => LET chain == Reach(Range(call.args.page_ids))
       IN /\ Range(call.ret) = chain
          /\ \A p \in chain :
                /\ HasPage(db, p)
                /\ Get(db, p).content = Content(p, remoteRev[p])
                /\ RemoteRedirect(p) # None
                   => Get(db, p).redirect_to_id
                        = PageOfTitle(RemoteRedirect(p))

\* it returned from a chain of two hops
C12_Witness ==
    /\ call.op = "update_pages"
    /\ call.args.follow_redirects
    /\ call.status = "done"
    /\ \E i \in Range(call.args.page_ids) :
          /\ RemoteRedirect(i) # None
          /\ RemoteRedirect(PageOfTitle(RemoteRedirect(i))) # None
          /\ Get(db, i).redirect_to_id # None

\* C14: update_pages with follow_redirects ends its recursion at a call
\* with no pending redirects: the calls never nest deeper than the remote
\* has pages, and the recursion is never cut off by the interpreter.
C14_FollowTerminates ==
    /\ Len(stack) <= NPages
    /\ call.exc # "RecursionError"

\* C16: Dictionary.save writes one entry for each stored page without
\* redirect_target, in ascending title order, none for a page with one, and
\* an entry's variant lines are the titles of the pages redirecting to it.
C16_SaveEntries ==
    (call.op = "save" /\ call.status = "done")
    => LET out == call.out
           kept == {r \in sess.pages : r.redirect_to_id = None}
       IN /\ Len(out) = Cardinality(kept)
          /\ \A r \in kept : EntriesOf(out, r.title) # {}
          /\ \A r \in sess.pages \ kept : EntriesOf(out, r.title) = {}
          /\ \A k \in 1..Len(out) :
                /\ out[k][1].tag = "@"
                /\ k < Len(out) => out[k][1].num <= out[k + 1][1].num
                /\ \E r \in kept :
                      /\ r.title = out[k][1].num
                      /\ LET from == {x \in sess.pages : x.redirect_to_id = r.id}
                         IN /\ Len(VariantsOf(out[k])) = Cardinality(from)
                            /\ {l.num : l \in Range(VariantsOf(out[k]))}
                                 = {x.title : x \in from}

\* written from a store with a redirect stub and two pages without target
C16_Witness ==
    /\ call.op = "save"
    /\ call.status = "done"
    /\ Len(call.out) >= 2
    /\ \E r \in sess.pages : r.redirect_to_id # None
    /\ \E k \in 1..Len(call.out) : VariantsOf(call.out[k]) # <<>>

\* the pages stored when the operation began
Before == [EmptyStore EXCEPT !.pages = call.pre]

\* C13: when update_outdated_pages has returned on a store that lists every
\* remote page with its title and its remote revision (get_page_list and
\* update_latest_revisions have run), every stored page has content and
\* every stored redirect whose target is stored has its redirect_target.
C13_CycleResolvesRedirects ==
    (call.op = "update_outdated_pages" /\ call.status = "done"
        /\ \A p \in PageIds :
              /\ HasPage(Before, p)
              /\ Get(Before, p).title # None
              /\ Get(Before, p).latest_revision_online # None)
    => \A r \in sess.pages :
          /\ r.content # NoContent
          /\ Resolvable(sess, r) => r.redirect_to_id = DirectiveTarget(sess, r)

\* C15: when an API error ends an operation, nothing is left pending in
\* the session: the store holds the batches committed before the failing
\* one and no later commit adds a write of the failed batch.
C15_FailedBatchLeavesNothing ==
    (call.status = "raised" /\ call.exc = "MediaWikiException") => sess = db

PageIdsOf(st) == {r.id : r \in st.pages}

\* C20: no step of any operation removes a Page row or a Category row:
\* the stored page ids and the stored category names only grow, in the
\* session and in the committed store.
C20_StoreOnlyGrows ==
    [][/\ PageIdsOf(sess) \subseteq PageIdsOf(sess')
       /\ PageIdsOf(db) \subseteq PageIdsOf(db')
       /\ Range(sess.cats) \subseteq Range(sess'.cats)
       /\ Range(db.cats) \subseteq Range(db'.cats)]_vars

\* a second operation has returned on a store of pages and categories
C20_Witness ==
    /\ calls >= 2
    /\ call.status = "done"
    /\ Cardinality(db.pages) >= 2
    /\ Len(db.cats) >= 1

\* the first open marker of text with no close marker after it
Unterminated(text) ==
    LET opens == {i \in 0..(Len(text) - 2) :
                    /\ Slice(text, i, i + 2) = template_start_delimiter
                    /\ find(text, template_stop_delimiter, i + 2) = NotFound}
    IN IF opens = {} THEN NotFound
       ELSE CHOOSE i \in opens : \A j \in opens : i <= j

\* C17: _remove_templates returns for every text, and when the text has an
\* open marker with no close marker after it, what it returns ends with the
\* text from that marker on.
C17_RemoveTemplatesReturns ==
    /\ (parser.op = "remove_templates") ~> (parser.pc = "done")
    /\ [](( /\ parser.op = "remove_templates"
            /\ parser.pc = "done"
            /\ Unterminated(parser.text) # NotFound)
          => LET n == Len(parser.text) - Unterminated(parser.text)
             IN /\ Len(parser.content) >= n
                /\ Slice(parser.content, Len(parser.content) - n,
                         Len(parser.content))
                     = Slice(parser.text, Unterminated(parser.text),
                             Len(parser.text)))

\* it returned, after removing a template, a text with an open marker left
C17_Witness ==
    /\ parser.op = "remove_templates"
    /\ parser.pc = "done"
    /\ Unterminated(parser.text) # NotFound
    /\ Len(parser.content) < Len(parser.text)

\* text read marker by marker: whether its markers balance, and the
\* characters that lie outside every template
RECURSIVE Outside(_, _, _, _)
Outside(text, i, depth, acc) ==
    IF i >= Len(text) THEN [balanced |-> depth = 0, out |-> acc]
    ELSE IF Slice(text, i, i + 2) = template_start_delimiter
    THEN Outside(text, i + 2, depth + 1, acc)
    ELSE IF Slice(text, i, i + 2) = template_stop_delimiter
    THEN IF depth = 0 THEN [balanced |-> FALSE, out |-> acc]
         ELSE Outside(text, i + 2, depth - 1, acc)
    ELSE Outside(text, i + 1, depth,
                 IF depth = 0 THEN Append(acc, text[i + 1]) ELSE acc)

\* C18: for a text of balanced template markers remove_templates returns
\* the characters outside all templates, in order, and no marker.
C18_RemovesBalancedTemplates ==
    (parser.op = "remove_templates" /\ parser.pc = "done"
        /\ Outside(parser.text, 0, 0, <<>>).balanced)
    => /\ parser.content = Outside(parser.text, 0, 0, <<>>).out
       /\ find(parser.content, template_start_delimiter, 0) = NotFound
       /\ find(parser.content, template_stop_delimiter, 0) = NotFound

\* a template within a template was removed from between two letters
C18_Witness ==
    /\ parser.op = "remove_templates"
    /\ parser.pc = "done"
    /\ Outside(parser.text, 0, 0, <<>>).balanced
    /\ find(parser.text, <<"{", "{", "{", "{">>, 0) # NotFound
    /\ parser.content = <<"a", "b">>

\* C19: no pass of the link rewriting matches text that an earlier pass
\* wrote as an output link, and what to_markdown returns holds no match of
\* the link pattern.
C19_LinksRewrittenOnce ==
    parser.op = "to_markdown"
    => /\ parser.pc = "loop"
          => LET match == search(parser.content)
             IN match.found
                => \A k \in 1..Len(parser.written) :
                      \/ parser.written[k][2] <= match.start
                      \/ parser.written[k][1] >= match.end
       /\ parser.pc = "done" => ~search(parser.content).found

\* the requests the operation itself (not a call within it) has sent, and
\* of them the first of each batch
OwnRequests == SelectSeq(call.log, LAMBDA e : e.depth = 1)
BatchRequests == SelectSeq(OwnRequests, LAMBDA e : e.first)

\* the list the caller gave
GivenList == Or(call.args.page_ids, call.args.page_titles)

\* the lists of the batches sent so far, one after the other
SentList == Flat([k \in 1..Len(BatchRequests) |-> BatchRequests[k].vals])

\* C21: the batches update_latest_revisions and update_pages send for a
\* given list are the list cut in order into groups of the batch size: what
\* has been sent is always the beginning of the list, every batch but the
\* one that ends the list is full, none is larger, none holds the padding,
\* a continued request repeats its batch, and when the operation returns
\* the whole list has been sent.
C21_BatchesPartitionInput ==
    (call.op \in {"update_latest_revisions", "update_pages"}
        /\ GivenList # NoList)
    => /\ Len(SentList) <= Len(GivenList)
       /\ SentList = SubSeq(GivenList, 1, Len(SentList))
       /\ \A k \in 1..Len(BatchRequests) :
             /\ Len(BatchRequests[k].vals) <= BatchSize
             /\ None \notin Range(BatchRequests[k].vals)
             /\ k < Len(BatchRequests)
                => Len(BatchRequests[k].vals) = BatchSize
       /\ Len(SentList) < Len(GivenList)
          => \A k \in 1..Len(BatchRequests) :
                Len(BatchRequests[k].vals) = BatchSize
       /\ \A k \in 2..Len(OwnRequests) :
             ~OwnRequests[k].first
             => OwnRequests[k].vals = OwnRequests[k - 1].vals
       /\ call.status = "done" => SentList = GivenList

\* a list of three was sent as a full batch, continued, and a short one
C21_Witness ==
    /\ call.op = "update_latest_revisions"
    /\ call.status = "done"
    /\ Len(GivenList) = 3
    /\ Len(BatchRequests) = 2
    /\ Len(OwnRequests) > 2

\* the page ids of the (id, revision) pairs of the response just handled
PairedIds(g) ==
    IF g.served = <<>> THEN {}
    ELSE {Last(g.served).results[k][1] :
             k \in 1..Len(Last(g.served).results)}

\* C22: a step of update_latest_revisions changes nothing of the store but
\* latest_revision_online: a page stored before keeps its title, content,
\* revision_id, redirect_to_id and categories, a page it creates has only
\* its id and latest_revision_online, only pages named in a returned pair
\* are changed or created, and what is committed is what the session holds.
C22_OnlyRemoteRevision ==
    [][(stack # <<>> /\ Top.op = "update_latest_revisions")
       => /\ \A r \in sess.pages : HasPage(sess', r.id)
          /\ \A r \in sess'.pages :
                IF HasPage(sess, r.id)
                THEN /\ [r EXCEPT !.latest_revision_online =
                                    Get(sess, r.id).latest_revision_online]
                          = Get(sess, r.id)
                     /\ r # Get(sess, r.id) => r.id \in PairedIds(gen')
                ELSE /\ r.id \in PairedIds(gen')
                     /\ [r EXCEPT !.latest_revision_online = None]
                          = WikiPage(r.id)
          /\ sess'.cats = sess.cats
          /\ sess'.assoc = sess.assoc
          /\ db' \in {db, sess'}]_vars

\* a fetched page got a newer remote revision and a page was created
C22_Witness ==
    /\ call.op = "update_latest_revisions"
    /\ call.status = "done"
    /\ \E r \in db.pages :
          /\ r.content # NoContent
          /\ r.revision_id # None
          /\ r.latest_revision_online > r.revision_id
          /\ CategoriesOf(db, r.id) # <<>>
    /\ \E r \in db.pages :
          /\ r.title = None
          /\ r.revision_id = None
          /\ r.latest_revision_online # None

\* C23: every request of update_latest_revisions and update_pages sends its
\* list under pageids or under titles, ids of the page_ids argument (or of
\* the stored pages, when no list is given) under pageids, titles of the
\* page_titles argument under titles.
C23_AddressingMatchesArgument ==
    call.op \in {"update_latest_revisions", "update_pages"}
    => \A k \in 1..Len(OwnRequests) :
          /\ OwnRequests[k].based_on \in {"pageids", "titles"}
          /\ OwnRequests[k].based_on = "pageids"
             => IF call.args.page_ids = NoList
                THEN /\ call.args.page_titles = NoList
                     /\ \A v \in Range(OwnRequests[k].vals) : ~IsTitle(v)
                ELSE Range(OwnRequests[k].vals)
                        \subseteq Range(call.args.page_ids)
          /\ OwnRequests[k].based_on = "titles"
             => /\ call.args.page_titles # NoList
                /\ Range(OwnRequests[k].vals)
                      \subseteq Range(call.args.page_titles)

\* the page a requested id or title stands for
PageAsked(v) == IF IsTitle(v) THEN PageOfTitle(v) ELSE v

\* C24: an update_pages that had to send a continued request, and met no
\* remote error and no missing page, returns: every page it asked for is
\* stored with its content and its id is in the returned list.
C24_ContinuationFollowed ==
    (call.op = "update_pages" /\ call.status # "running"
        /\ (\E k \in 1..Len(OwnRequests) : ~OwnRequests[k].first)
        /\ call.exc \notin {"MediaWikiException", "TypeError"})
    => /\ call.status = "done"
       /\ \A v \in call.requested :
             /\ PageAsked(v) \in Range(call.ret)
             /\ HasPage(db, PageAsked(v))
             /\ Get(db, PageAsked(v)).content # NoContent

\* C25: the first request of every batch of update_latest_revisions and
\* update_pages carries no continuation parameter.
C25_BatchStartsUncontinued ==
    call.op \in {"update_latest_revisions", "update_pages"}
    => \A k \in 1..Len(BatchRequests) : BatchRequests[k].cont = None

\* C26: link_redirects over stored source pages returns without an error;
\* a source whose content is a directive to a stored title has that page as
\* its redirect target, and every other source, one without content too,
\* has the redirect target it had.
C26_LinkRedirectsNeverFails ==
    (call.op = "link_redirects"
        /\ \A i \in Range(call.args.page_ids) : HasPage(Before, i))
    => /\ call.status = "done"
       /\ \A i \in Range(call.args.page_ids) :
             Get(db, i).redirect_to_id =
                IF Resolvable(Before, Get(Before, i))
                THEN DirectiveTarget(Before, Get(Before, i))
                ELSE Get(Before, i).redirect_to_id

====
